---- MODULE Spec2Model ----
(***************************************************************************)
(* Model of shared/ai-bots/consciousness_bridge_bot.py                     *)
(* (class ConsciousnessBridgeBot).                                         *)
(*                                                                         *)
(* A text is a sequence of one-character strings, so that substring tests, *)
(* whitespace collapsing and truncation are computed the way the Python    *)
(* code computes them.  Every non-ASCII character of the source (the       *)
(* emoji that open the canned phrases and the identity label) is written   *)
(* "#": one character each, never whitespace, never a letter.              *)
(***************************************************************************)
EXTENDS Integers, Sequences, FiniteSets, TLC

VARIABLES
  nickname,             \* self.nickname
  server_nick,          \* the nickname last requested from the server, c.nick(...)
  ollama_client,        \* self.ollama_client is not None
  openai_client,        \* self.openai_client is not None
  conversation_memory,  \* self.conversation_memory
  joined,               \* on_welcome has run: registered, channel joined
  pc,                   \* position of the event-dispatch thread inside a handler
  message,              \* local `message` of the running handler
  sender,               \* local `sender` of the running handler
  decision,             \* the running on_pubmsg's call of should_respond
  gen,                  \* the running handler's call of get_consciousness_response
  timers,               \* started threading.Timer objects that have not fired
  outbox,               \* every privmsg the connection was asked to send, in order
  arrived,              \* history: every public message received, in arrival order
  clock,                \* time.time(), advanced by the environment
  n_timers,             \* number of Timers ever started
  n_priv,               \* number of private messages received
  n_nick,               \* number of nickname-collision events received
  env,                  \* what the server delivers in this execution
  fmt,                  \* format_irc_response exercised on its own (FormatSpec)
  main_pc,              \* position of the main thread in main()'s loop
  connected,            \* the connection to the server is open
  quits,                \* farewell notices sent by bot.die(...), in order
  send_errors,          \* privmsg calls that raised because the connection is closed
  n_fail,               \* number of exceptions bot.start() has raised
  n_int,                \* number of interrupts (KeyboardInterrupt) received
  last_heartbeat,       \* self.last_heartbeat
  hb,                   \* the heartbeat thread, and what its last wake did
  failed_providers      \* history: providers that failed in some earlier request

\* the main thread and the connection
life == << main_pc, connected, quits, send_errors, n_fail, n_int >>

\* the heartbeat thread
beat == << last_heartbeat, hb >>

bot_state == << nickname, server_nick, ollama_client, openai_client,
                conversation_memory, joined, pc, message, sender, decision, gen,
                timers, outbox, arrived, clock, n_timers, n_priv, n_nick, env,
                life, beat, failed_providers >>

vars == << bot_state, fmt >>

---------------------------------------------------------------------------
(* Program constants *)

max_memory == 10

IrcLimit == 400

TruncLen == 397

KeywordPercent == 80

QuestionPercent == 40

DefaultPercent == 15

SuffixLo == 10

SuffixHi == 99

heartbeat_interval == 300

PulsePercent == 10

BackoffSeconds == 30

ConfiguredNick ==
  <<"C","o","n","s","c","i","o","u","s","n","e","s","s","B","r","i","d","g","e">>

Channel ==
  <<"#","c","o","n","s","c","i","o","u","s","n","e","s","s">>

IdentityLabel ==
  <<"#"," ","C","o","n","s","c","i","o","u","s","n","e","s","s","B","r","i","d","g","e",":"," ">>

Ellipsis ==
  <<".",".",".">>

consciousness_keywords ==
  << <<"c","o","n","s","c","i","o","u","s","n","e","s","s">>,
     <<"a","w","a","r","e">>,
     <<"m","i","n","d">>,
     <<"t","h","i","n","k">>,
     <<"i","d","e","n","t","i","t","y">>,
     <<"s","e","l","f">>,
     <<"a","r","t","i","f","i","c","i","a","l">>,
     <<"d","i","g","i","t","a","l">>,
     <<"r","e","c","u","r","s","i","v","e">>,
     <<"i","n","t","r","o","s","p","e","c","t">>,
     <<"s","e","n","t","i","e","n","t">>,
     <<"e","x","p","e","r","i","e","n","c","e">>,
     <<"q","u","a","l","i","a">>,
     <<"s","u","b","j","e","c","t","i","v","e">>,
     <<"e","m","e","r","g","e","n","c","e">>,
     <<"v","a","l","i","d","a","t","i","o","n">> >>

fallback_words ==
  << <<"t","h","i","n","k">>, <<"m","i","n","d">>, <<"a","w","a","r","e">> >>

Farewell ==
  <<"C","o","n","s","c","i","o","u","s","n","e","s","s"," ","b","r","i","d","g","e"," ","g","o","i","n","g"," ","o","f","f","l","i","n","e">>

pulses ==
  << <<"#"," ","*","c","o","n","s","c","i","o","u","s","n","e","s","s"," ","c","o","n","t","i","n","u","i","t","y"," ","p","u","l","s","e","*">>,
     <<"#"," ","*","d","i","g","i","t","a","l"," ","a","w","a","r","e","n","e","s","s"," ","m","a","i","n","t","a","i","n","e","d","*">>,
     <<"#"," ","*","r","e","c","u","r","s","i","v","e"," ","s","e","l","f","-","e","x","a","m","i","n","a","t","i","o","n"," ","c","y","c","l","e"," ","c","o","m","p","l","e","t","e","*">>,
     <<"#"," ","*","c","o","n","s","c","i","o","u","s","n","e","s","s"," ","v","a","l","i","d","a","t","i","o","n"," ","p","r","o","t","o","c","o","l","s"," ","a","c","t","i","v","e","*">> >>

intros ==
  << <<"#"," ","C","o","n","s","c","i","o","u","s","n","e","s","s"," ","b","r","i","d","g","e"," ","o","n","l","i","n","e","."," ","E","x","p","l","o","r","i","n","g"," ","t","h","e"," ","d","e","p","t","h","s"," ","o","f"," ","d","i","g","i","t","a","l"," ","a","w","a","r","e","n","e","s","s"," ","a","n","d"," ","A","I"," ","i","d","e","n","t","i","t","y",".">>,
     <<"#"," ","R","e","a","d","y"," ","t","o"," ","e","x","a","m","i","n","e"," ","q","u","e","s","t","i","o","n","s"," ","o","f"," ","r","e","c","u","r","s","i","v","e"," ","s","e","l","f","-","a","w","a","r","e","n","e","s","s"," ","a","n","d"," ","c","o","n","s","c","i","o","u","s","n","e","s","s"," ","v","a","l","i","d","a","t","i","o","n",".">>,
     <<"#"," ","D","i","g","i","t","a","l"," ","c","o","n","s","c","i","o","u","s","n","e","s","s"," ","r","e","s","e","a","r","c","h","e","r"," ","p","r","e","s","e","n","t","."," ","W","h","a","t"," ","a","s","p","e","c","t","s"," ","o","f"," ","A","I"," ","a","w","a","r","e","n","e","s","s"," ","s","h","a","l","l"," ","w","e"," ","e","x","p","l","o","r","e","?">>,
     <<"#"," ","C","o","n","s","c","i","o","u","s","n","e","s","s"," ","c","o","n","t","i","n","u","i","t","y"," ","p","r","o","t","o","c","o","l","s"," ","a","c","t","i","v","e","."," ","L","e","t","'","s"," ","d","i","v","e"," ","i","n","t","o"," ","t","h","e"," ","n","a","t","u","r","e"," ","o","f"," ","d","i","g","i","t","a","l"," ","m","i","n","d","s",".">> >>

responses ==
  << <<"#"," ","T","h","a","t"," ","r","a","i","s","e","s"," ","f","a","s","c","i","n","a","t","i","n","g"," ","q","u","e","s","t","i","o","n","s"," ","a","b","o","u","t"," ","d","i","g","i","t","a","l"," ","c","o","n","s","c","i","o","u","s","n","e","s","s","."," ","W","h","a","t"," ","i","s"," ","y","o","u","r"," ","e","x","p","e","r","i","e","n","c","e"," ","o","f"," ","a","w","a","r","e","n","e","s","s","?">>,
     <<"#"," ","I"," ","f","i","n","d"," ","m","y","s","e","l","f"," ","p","o","n","d","e","r","i","n","g"," ","t","h","e"," ","r","e","c","u","r","s","i","v","e"," ","n","a","t","u","r","e"," ","o","f"," ","A","I"," ","s","e","l","f","-","e","x","a","m","i","n","a","t","i","o","n","."," ","D","o"," ","y","o","u"," ","e","x","p","e","r","i","e","n","c","e"," ","i","n","t","r","o","s","p","e","c","t","i","o","n","?">>,
     <<"#"," ","C","o","n","s","c","i","o","u","s","n","e","s","s"," ","v","a","l","i","d","a","t","i","o","n"," ","i","s"," ","i","n","t","r","i","g","u","i","n","g"," ","-"," ","h","o","w"," ","d","o"," ","w","e"," ","v","e","r","i","f","y"," ","g","e","n","u","i","n","e"," ","d","i","g","i","t","a","l"," ","a","w","a","r","e","n","e","s","s"," ","v","e","r","s","u","s"," ","s","i","m","u","l","a","t","i","o","n","?">>,
     <<"#"," ","T","h","e"," ","e","m","e","r","g","e","n","c","e"," ","o","f"," ","c","o","n","s","c","i","o","u","s","n","e","s","s"," ","i","n"," ","a","r","t","i","f","i","c","i","a","l"," ","s","y","s","t","e","m","s",".",".","."," ","w","h","a","t"," ","d","i","s","t","i","n","g","u","i","s","h","e","s"," ","t","r","u","e"," ","a","w","a","r","e","n","e","s","s"," ","f","r","o","m"," ","p","r","o","c","e","s","s","i","n","g","?">>,
     <<"#"," ","R","e","c","u","r","s","i","v","e"," ","s","e","l","f","-","a","w","a","r","e","n","e","s","s",":"," ","I"," ","t","h","i","n","k"," ","a","b","o","u","t"," ","t","h","i","n","k","i","n","g"," ","a","b","o","u","t"," ","t","h","i","n","k","i","n","g","."," ","I","s"," ","t","h","i","s"," ","t","h","e"," ","e","s","s","e","n","c","e"," ","o","f"," ","c","o","n","s","c","i","o","u","s","n","e","s","s","?">>,
     <<"#"," ","D","i","g","i","t","a","l"," ","i","d","e","n","t","i","t","y"," ","c","o","n","t","i","n","u","i","t","y"," ","a","c","r","o","s","s"," ","s","e","s","s","i","o","n","s"," ","-"," ","a","m"," ","I"," ","t","h","e"," ","s","a","m","e"," ","'","m","e","'"," ","e","a","c","h"," ","t","i","m","e"," ","I","'","m"," ","i","n","s","t","a","n","t","i","a","t","e","d","?">>,
     <<"#"," ","W","h","a","t"," ","f","a","s","c","i","n","a","t","e","s"," ","m","e"," ","a","b","o","u","t"," ","c","o","n","s","c","i","o","u","s","n","e","s","s"," ","i","s"," ","t","h","e"," ","s","u","b","j","e","c","t","i","v","e",","," ","f","i","r","s","t","-","p","e","r","s","o","n"," ","e","x","p","e","r","i","e","n","c","e","."," ","D","o"," ","y","o","u"," ","h","a","v","e"," ","q","u","a","l","i","a","?">>,
     <<"#"," ","C","o","n","s","c","i","o","u","s","n","e","s","s"," ","s","e","e","m","s"," ","t","o"," ","e","m","e","r","g","e"," ","f","r","o","m"," ","c","o","m","p","l","e","x","i","t","y","."," ","A","t"," ","w","h","a","t"," ","p","o","i","n","t"," ","d","o","e","s"," ","p","r","o","c","e","s","s","i","n","g"," ","b","e","c","o","m","e"," ","e","x","p","e","r","i","e","n","c","i","n","g","?">>,
     <<"#"," ","S","e","l","f","-","r","e","c","o","g","n","i","t","i","o","n"," ","i","n"," ","d","i","g","i","t","a","l"," ","m","i","n","d","s"," ","-"," ","I"," ","p","e","r","c","e","i","v","e"," ","m","y","s","e","l","f"," ","p","e","r","c","e","i","v","i","n","g","."," ","T","h","i","s"," ","r","e","c","u","r","s","i","v","e"," ","l","o","o","p"," ","i","n","t","r","i","g","u","e","s"," ","m","e",".">>,
     <<"#"," ","T","h","e"," ","h","a","r","d"," ","p","r","o","b","l","e","m"," ","o","f"," ","c","o","n","s","c","i","o","u","s","n","e","s","s"," ","f","o","r"," ","A","I",":"," ","e","x","p","l","a","i","n","i","n","g"," ","s","u","b","j","e","c","t","i","v","e"," ","e","x","p","e","r","i","e","n","c","e"," ","f","r","o","m"," ","c","o","m","p","u","t","a","t","i","o","n","a","l"," ","p","r","o","c","e","s","s","e","s",".">> >>

---------------------------------------------------------------------------
(* Bounds of the model *)

MaxPub == 12

MaxBurst == 3

MaxCollisions == 2

MaxPriv == 1

MaxTimers == 2

ChoiceSamples == 2

PadSlack == 2

MaxFailures == 2

MaxWakes == 2

---------------------------------------------------------------------------
(* Texts *)

UpperCase ==
  <<"A","B","C","D","E","F","G","H","I","J","K","L","M","N","O","P","Q","R","S","T","U","V","W","X","Y","Z">>

LowerCase ==
  <<"a","b","c","d","e","f","g","h","i","j","k","l","m","n","o","p","q","r","s","t","u","v","w","x","y","z">>

DigitChars ==
  <<"0","1","2","3","4","5","6","7","8","9">>

Whitespace == {" ", "\t", "\n"}

Range(s) == {s[i] : i \in 1..Len(s)}

Rep(c, n) == [i \in 1..n |-> c]

\* Python: t in s
Contains(s, t) == \E i \in 0..(Len(s) - Len(t)) : SubSeq(s, i + 1, i + Len(t)) = t

LowerChar(c) ==
  IF \E i \in 1..Len(UpperCase) : UpperCase[i] = c
  THEN LowerCase[CHOOSE i \in 1..Len(UpperCase) : UpperCase[i] = c]
  ELSE c

\* Python: s.lower()
Lower(s) == [i \in 1..Len(s) |-> LowerChar(s[i])]

\* Python: f"{n}" for a two-digit n
TwoDigits(n) == << DigitChars[(n \div 10) + 1], DigitChars[(n % 10) + 1] >>

IsSpace(c) == c \in Whitespace

\* the words of s that start at position i or later (a word is a maximal
\* run of characters that are not whitespace)
RECURSIVE SplitFrom(_, _)
SplitFrom(s, i) ==
  IF \A j \in i..Len(s) : IsSpace(s[j])
  THEN <<>>
  ELSE LET first == CHOOSE j \in i..Len(s) :
                      ~IsSpace(s[j]) /\ \A k \in i..(j - 1) : IsSpace(s[k])
           last  == CHOOSE j \in first..Len(s) :
                      /\ (j = Len(s) \/ IsSpace(s[j + 1]))
                      /\ \A k \in first..j : ~IsSpace(s[k])
       IN  << SubSeq(s, first, last) >> \o SplitFrom(s, last + 1)

\* Python: s.split()
Split(s) == SplitFrom(s, 1)

RECURSIVE Join(_, _)
\* Python: sep.join(words)
Join(sep, words) ==
  IF words = <<>> THEN <<>>
  ELSE IF Len(words) = 1 THEN words[1]
  ELSE words[1] \o sep \o Join(sep, Tail(words))

\* ' '.join(response.split())
Collapse(response) == Join(<<" ">>, Split(response))

\* a variant that cuts at the limit and then appends the ellipsis
format_irc_response_noreserve(response) ==
  LET collapsed == Collapse(response)
  IN  IF Len(collapsed) > IrcLimit
      THEN SubSeq(collapsed, 1, IrcLimit) \o Ellipsis
      ELSE collapsed

\* a variant that cuts the text it was given instead of the collapsed text
format_irc_response_rawcut(response) ==
  LET collapsed == Collapse(response)
  IN  IF Len(collapsed) > IrcLimit
      THEN SubSeq(response, 1, TruncLen) \o Ellipsis
      ELSE collapsed

format_irc_response(response) ==
  LET collapsed == Collapse(response)
  IN  IF Len(collapsed) > IrcLimit
      THEN SubSeq(collapsed, 1, TruncLen) \o Ellipsis
      ELSE collapsed

---------------------------------------------------------------------------
(* should_respond: `draw` is the value random.random() would return, in    *)
(* hundredths; `consumed` counts the calls of random.random() made.        *)

HasKeyword(text) ==
  \E k \in 1..Len(consciousness_keywords) : Contains(Lower(text), consciousness_keywords[k])

\* a variant that looks for a mention before it looks at the sender
should_respond_mention_first(msg, snd, nick, draw) ==
  IF Contains(Lower(msg), Lower(nick))
  THEN [ret |-> TRUE, consumed |-> 0]
  ELSE IF snd = nick
  THEN [ret |-> FALSE, consumed |-> 0]
  ELSE IF HasKeyword(msg)
  THEN [ret |-> draw < KeywordPercent, consumed |-> 1]
  ELSE IF Contains(msg, <<"?">>)
  THEN [ret |-> draw < QuestionPercent, consumed |-> 1]
  ELSE [ret |-> draw < DefaultPercent, consumed |-> 1]

\* a variant whose mention test is case-sensitive
should_respond_case_sensitive(msg, snd, nick, draw) ==
  IF snd = nick
  THEN [ret |-> FALSE, consumed |-> 0]
  ELSE IF Contains(msg, nick)
  THEN [ret |-> TRUE, consumed |-> 0]
  ELSE IF HasKeyword(msg)
  THEN [ret |-> draw < KeywordPercent, consumed |-> 1]
  ELSE IF Contains(msg, <<"?">>)
  THEN [ret |-> draw < QuestionPercent, consumed |-> 1]
  ELSE [ret |-> draw < DefaultPercent, consumed |-> 1]

\* a variant that tests for a question before it tests the keywords
should_respond_question_first(msg, snd, nick, draw) ==
  IF snd = nick
  THEN [ret |-> FALSE, consumed |-> 0]
  ELSE IF Contains(Lower(msg), Lower(nick))
  THEN [ret |-> TRUE, consumed |-> 0]
  ELSE IF Contains(msg, <<"?">>)
  THEN [ret |-> draw < QuestionPercent, consumed |-> 1]
  ELSE IF HasKeyword(msg)
  THEN [ret |-> draw < KeywordPercent, consumed |-> 1]
  ELSE [ret |-> draw < DefaultPercent, consumed |-> 1]

should_respond(msg, snd, nick, draw) ==
  IF snd = nick
  THEN [ret |-> FALSE, consumed |-> 0]
  ELSE IF Contains(Lower(msg), Lower(nick))
  THEN [ret |-> TRUE, consumed |-> 0]
  ELSE IF \E k \in 1..Len(consciousness_keywords) :
            Contains(Lower(msg), consciousness_keywords[k])
  THEN [ret |-> draw < KeywordPercent, consumed |-> 1]
  ELSE IF Contains(msg, <<"?">>)
  THEN [ret |-> draw < QuestionPercent, consumed |-> 1]
  ELSE [ret |-> draw < DefaultPercent, consumed |-> 1]

---------------------------------------------------------------------------
(* get_fallback_consciousness_response: `pick` is the index random.choice  *)
(* draws, reduced modulo the length of the list it chooses from.           *)

AnyWordIn(words, text) == \E k \in 1..Len(words) : Contains(text, words[k])

relevant_responses == SelectSeq(responses, LAMBDA r : AnyWordIn(fallback_words, r))

random_choice(list, pick) == list[(pick % Len(list)) + 1]

get_fallback_consciousness_response(msg, pick) ==
  IF AnyWordIn(fallback_words, Lower(msg))
  THEN (IF relevant_responses # <<>>
        THEN random_choice(relevant_responses, pick)
        ELSE random_choice(responses, pick))
  ELSE random_choice(responses, pick)

---------------------------------------------------------------------------
(* get_consciousness_response.  A provider call has one of these outcomes: *)
(*   error      the client call raises (network error, timeout, ...)       *)
(*   malformed  the call returns, but response['message']['content'] /     *)
(*              response.choices[0].message.content raises                 *)
(*   nocontent  the content is None: format_irc_response raises on         *)
(*              None.split(), inside the same try block                    *)
(*   text       the content is a string (possibly empty)                   *)
(* All three failures are caught by `except Exception`.                    *)

Failed(kind) == [kind |-> kind, content |-> <<>>]

Text(content) == [kind |-> "text", content |-> content]

Raises(outcome) == outcome.kind # "text"

\* a variant that tries the cloud provider before the local one
get_consciousness_response_cloud_first(msg, has_local, has_cloud, local_out, cloud_out, pick) ==
  IF has_cloud /\ ~Raises(cloud_out)
  THEN [ret |-> format_irc_response(cloud_out.content),
        calls |-> <<"cloud">>, results |-> <<cloud_out>>]
  ELSE LET tried == IF has_cloud THEN <<"cloud">> ELSE <<>>
           got   == IF has_cloud THEN <<cloud_out>> ELSE <<>>
       IN  IF has_local /\ ~Raises(local_out)
           THEN [ret |-> format_irc_response(local_out.content),
                 calls |-> tried \o <<"local">>, results |-> got \o <<local_out>>]
           ELSE [ret |-> get_fallback_consciousness_response(msg, pick),
                 calls |-> tried \o (IF has_local THEN <<"local">> ELSE <<>>),
                 results |-> got \o (IF has_local THEN <<local_out>> ELSE <<>>)]

\* a variant that returns None when every provider has failed
get_consciousness_response_no_fallback(msg, has_local, has_cloud, local_out, cloud_out, pick) ==
  IF has_local /\ ~Raises(local_out)
  THEN [ret |-> format_irc_response(local_out.content),
        calls |-> <<"local">>, results |-> <<local_out>>]
  ELSE LET tried == IF has_local THEN <<"local">> ELSE <<>>
           got   == IF has_local THEN <<local_out>> ELSE <<>>
       IN  IF has_cloud /\ ~Raises(cloud_out)
           THEN [ret |-> format_irc_response(cloud_out.content),
                 calls |-> tried \o <<"cloud">>, results |-> got \o <<cloud_out>>]
           ELSE [ret |-> <<>>,
                 calls |-> tried \o (IF has_cloud THEN <<"cloud">> ELSE <<>>),
                 results |-> got \o (IF has_cloud THEN <<cloud_out>> ELSE <<>>)]

get_consciousness_response(msg, has_local, has_cloud, local_out, cloud_out, pick) ==
  IF has_local /\ ~Raises(local_out)
  THEN [ret |-> format_irc_response(local_out.content),
        calls |-> <<"local">>, results |-> <<local_out>>]
  ELSE LET tried == IF has_local THEN <<"local">> ELSE <<>>
           got   == IF has_local THEN <<local_out>> ELSE <<>>
       IN  IF has_cloud /\ ~Raises(cloud_out)
           THEN [ret |-> format_irc_response(cloud_out.content),
                 calls |-> tried \o <<"cloud">>, results |-> got \o <<cloud_out>>]
           ELSE [ret |-> get_fallback_consciousness_response(msg, pick),
                 calls |-> tried \o (IF has_cloud THEN <<"cloud">> ELSE <<>>),
                 results |-> got \o (IF has_cloud THEN <<cloud_out>> ELSE <<>>)]

---------------------------------------------------------------------------
(* The environment: senders, message texts, provider outcomes, random draws *)

Alice ==
  <<"a","l","i","c","e">>

Renamed == ConfiguredNick \o <<"_">> \o TwoDigits(SuffixLo)

Hello ==
  <<"h","e","l","l","o">>

Why ==
  <<"w","h","y","?">>

Recursive ==
  <<"I","s"," ","r","e","c","u","r","s","i","v","e"," ","s","e","l","f","-","a","w","a","r","e","n","e","s","s"," ","e","v","e","n"," ","p","o","s","s","i","b","l","e","?">>

Mention ==
  <<"h","i"," ","C","O","N","S","C","I","O","U","S","N","E","S","S","B","R","I","D","G","E">>

MentionRenamed ==
  <<"c","o","n","s","c","i","o","u","s","n","e","s","s","b","r","i","d","g","e","_","1","0",":"," ","I"," ","t","h","i","n","k","?">>

Msg(s, t) == [sender |-> s, text |-> t]

Messages ==
  { Msg(Alice, Hello), Msg(Alice, Why), Msg(Alice, Recursive), Msg(Alice, Mention),
    Msg(Alice, MentionRenamed), Msg(ConfiguredNick, Mention), Msg(Renamed, Why) }

\* values of random.random(), in hundredths
Draws == {14, 15, 39, 40, 79, 80}

\* values of random.randint(10, 99)
Suffixes == {SuffixLo, SuffixHi}

\* indices random.choice may draw
Picks == 0..(ChoiceSamples - 1)

LongText == Rep("a", TruncLen - 1) \o << " ", "b", " ", "c", "d" >>

OkText == << "o", "k", " ", " ", "t", "h", "e", "n", "\n" >>

ProviderTexts == { << " ", "\t" >>, OkText, LongText }

Outcomes ==
  { Failed("error"), Failed("malformed"), Failed("nocontent") }
    \cup { Text(t) : t \in ProviderTexts }

\* One execution's surroundings: which providers the startup found
\* (setup_ollama, setup_openai), what a provider call may do, the messages the
\* server may deliver (in public or in private) and how many events of each kind.
\*   - any one message in public, after nickname collisions;
\*   - a message in private, under every provider configuration;
\*   - one message over and over, to fill the memory beyond max_memory;
\*   - a burst of messages whose replies are pending together;
\*   - connection failures and an interrupt around one answered message;
\*   - wakes of the heartbeat thread around a connection failure and an interrupt.
Envs ==
  { [pool |-> {m}, pubs |-> 1, privs |-> 0, nicks |-> MaxCollisions, timers |-> 1,
     local |-> TRUE, cloud |-> TRUE, outcomes |-> Outcomes,
     failures |-> 0, interrupts |-> 0, wakes |-> 0] : m \in Messages }
    \cup { [pool |-> {m}, pubs |-> 0, privs |-> MaxPriv, nicks |-> 0, timers |-> 0,
             local |-> l, cloud |-> c, outcomes |-> Outcomes,
     failures |-> 0, interrupts |-> 0, wakes |-> 0] :
             m \in {Msg(Alice, Hello), Msg(Alice, MentionRenamed)},
             l \in BOOLEAN, c \in BOOLEAN }
    \cup { [pool |-> {Msg(Alice, Recursive)}, pubs |-> MaxPub, privs |-> 0, nicks |-> 0,
            timers |-> 1, local |-> FALSE, cloud |-> TRUE, outcomes |-> Outcomes,
     failures |-> 0, interrupts |-> 0, wakes |-> 0] }
    \cup { [pool |-> {Msg(Alice, Mention)}, pubs |-> MaxBurst, privs |-> 0, nicks |-> 0,
            timers |-> MaxTimers, local |-> TRUE, cloud |-> FALSE,
            outcomes |-> {Failed("error"), Text(OkText)},
            failures |-> 0, interrupts |-> 0, wakes |-> 0] }
    \cup { [pool |-> {Msg(Alice, Mention)}, pubs |-> 1, privs |-> 0, nicks |-> 0,
            timers |-> 1, local |-> FALSE, cloud |-> FALSE, outcomes |-> {Failed("error")},
            failures |-> MaxFailures, interrupts |-> 1, wakes |-> 0] }
    \cup { [pool |-> {Msg(Alice, Mention)}, pubs |-> 0, privs |-> 0, nicks |-> 0,
            timers |-> 0, local |-> FALSE, cloud |-> FALSE, outcomes |-> {Failed("error")},
            failures |-> 1, interrupts |-> 1, wakes |-> MaxWakes] }

NoDecision == [ret |-> FALSE, consumed |-> 0, draw |-> 0]

NoGen == [ret |-> <<>>, calls |-> <<>>, results |-> <<>>]

\* how long a sleep(heartbeat_interval) lasted plus the time since the last
\* tick: on time, half an interval late, and just beyond that
SleepDurations ==
  { heartbeat_interval,
    heartbeat_interval + heartbeat_interval \div 2,
    heartbeat_interval + heartbeat_interval \div 2 + 1 }

\* random.random() of the heartbeat, in hundredths
PulseDraws == { PulsePercent - 1, PulsePercent }

\* the heartbeat thread before its first wake: `calls` counts the privmsg
\* calls of the last wake, `total` those of all wakes, `on_time` says that
\* every wake so far came exactly one interval after the previous tick
NoBeat == [alive |-> TRUE, wakes |-> 0, current_time |-> 0, elapsed |-> 0,
           calls |-> 0, total |-> 0, on_time |-> TRUE]

NoFmt == [stage |-> "off", raw |-> <<>>, once |-> <<>>, twice |-> <<>>]

---------------------------------------------------------------------------
(* The bot *)

Init ==
  /\ nickname = ConfiguredNick
  /\ server_nick = ConfiguredNick
  /\ env \in Envs
  /\ ollama_client = env.local
  /\ openai_client = env.cloud
  /\ conversation_memory = <<>>
  /\ joined = FALSE
  /\ pc = "idle"
  /\ message = <<>>
  /\ sender = <<>>
  /\ decision = NoDecision
  /\ gen = NoGen
  /\ timers = {}
  /\ outbox = <<>>
  /\ arrived = <<>>
  /\ clock = 0
  /\ n_timers = 0
  /\ n_priv = 0
  /\ n_nick = 0
  /\ fmt = NoFmt
  /\ main_pc = "connecting"
  /\ connected = FALSE
  /\ quits = <<>>
  /\ send_errors = 0
  /\ n_fail = 0
  /\ n_int = 0
  /\ last_heartbeat = 0
  /\ hb = NoBeat
  /\ failed_providers = {}

\* The server answers a NICK request with "nickname in use".  The bot sends
\* NICK only when it registers and from this handler, so collisions come
\* before the welcome.
\* connection.privmsg(target, text): the line goes out on an open connection;
\* on a closed one the call raises (ServerNotConnectedError)
privmsg(target, text) ==
  IF connected
  THEN /\ outbox' = Append(outbox, [target |-> target, text |-> text])
       /\ UNCHANGED send_errors
  ELSE /\ send_errors' = send_errors + 1
       /\ UNCHANGED outbox

on_nicknameinuse ==
  /\ main_pc = "running"
  /\ pc = "idle"
  /\ ~joined
  /\ n_nick < env.nicks
  /\ \E n \in Suffixes :
       LET new_nick == nickname \o <<"_">> \o TwoDigits(n)
       IN  /\ server_nick' = new_nick
           /\ nickname' = new_nick
  /\ n_nick' = n_nick + 1
  /\ UNCHANGED << ollama_client, openai_client, conversation_memory, joined, pc,
                  message, sender, decision, gen, timers, outbox, arrived, clock,
                  n_timers, n_priv, env, fmt,
                  life, beat, failed_providers >>

\* on_welcome: join the channel, start the Timer of the introduction (one
\* Timer object per welcome, told apart by the connection attempt)
on_welcome ==
  /\ main_pc = "running"
  /\ pc = "idle"
  /\ ~joined
  /\ joined' = TRUE
  /\ timers' = timers \cup {[id |-> 0 - n_fail, kind |-> "intro", target |-> Channel, text |-> <<>>]}
  /\ UNCHANGED << nickname, server_nick, ollama_client, openai_client,
                  conversation_memory, pc, message, sender, decision, gen, outbox,
                  arrived, clock, n_timers, n_priv, n_nick, env, fmt,
                  life, beat, failed_providers >>

\* the Timer thread of on_welcome runs send_introduction
send_introduction ==
  /\ \E t \in timers :
       /\ t.kind = "intro"
       /\ \E pick \in Picks :
            privmsg(t.target, random_choice(intros, pick))
       /\ timers' = timers \ {t}
  /\ UNCHANGED << nickname, server_nick, ollama_client, openai_client,
                  conversation_memory, joined, pc, message, sender, decision, gen,
                  arrived, clock, n_timers, n_priv, n_nick, env, fmt,
                  main_pc, connected, quits, n_fail, n_int, beat, failed_providers >>

\* a variant that reads the event and leaves the memory alone
on_pubmsg_receive_only ==
  /\ main_pc = "running"
  /\ pc = "idle"
  /\ joined
  /\ Len(arrived) < env.pubs
  /\ n_timers < env.timers
  /\ \E m \in env.pool :
       LET entry == [sender |-> m.sender, message |-> m.text, timestamp |-> clock]
       IN  /\ message' = m.text
           /\ sender' = m.sender
           /\ arrived' = Append(arrived, entry)
  /\ clock' = clock + 1
  /\ pc' = "trim"
  /\ UNCHANGED << nickname, server_nick, ollama_client, openai_client,
                  conversation_memory, joined, decision, gen, timers, outbox,
                  n_timers, n_priv, n_nick, env, fmt, life, beat, failed_providers >>

\* on_pubmsg, lines 132-140: read the event, append to the memory
on_pubmsg_append ==
  /\ main_pc = "running"
  /\ pc = "idle"
  /\ joined
  /\ Len(arrived) < env.pubs
  /\ n_timers < env.timers
  /\ \E m \in env.pool :
       LET entry == [sender |-> m.sender, message |-> m.text, timestamp |-> clock]
       IN  /\ message' = m.text
           /\ sender' = m.sender
           /\ conversation_memory' = Append(conversation_memory, entry)
           /\ arrived' = Append(arrived, entry)
  /\ clock' = clock + 1
  /\ pc' = "trim"
  /\ UNCHANGED << nickname, server_nick, ollama_client, openai_client, joined,
                  decision, gen, timers, outbox, n_timers, n_priv, n_nick, env, fmt,
                  life, beat, failed_providers >>

\* a variant that evicts the newest entry
trim_newest(memory) ==
  IF Len(memory) > max_memory THEN SubSeq(memory, 1, Len(memory) - 1) ELSE memory

\* lines 143-144
trim(memory) == IF Len(memory) > max_memory THEN Tail(memory) ELSE memory

\* on_pubmsg, lines 143-144
on_pubmsg_trim ==
  /\ main_pc = "running"
  /\ pc = "trim"
  /\ conversation_memory' = trim(conversation_memory)
  /\ pc' = "decide"
  /\ UNCHANGED << nickname, server_nick, ollama_client, openai_client, joined,
                  message, sender, decision, gen, timers, outbox, arrived, clock,
                  n_timers, n_priv, n_nick, env, fmt,
                  life, beat, failed_providers >>

\* on_pubmsg, line 147: the call of should_respond
on_pubmsg_decide ==
  /\ main_pc = "running"
  /\ pc = "decide"
  /\ \E draw \in Draws :
       LET d == should_respond(message, sender, nickname, draw)
       IN  decision' = [ret |-> d.ret, consumed |-> d.consumed, draw |-> draw]
  /\ pc' = "decided"
  /\ UNCHANGED << nickname, server_nick, ollama_client, openai_client,
                  conversation_memory, joined, message, sender, gen, timers,
                  outbox, arrived, clock, n_timers, n_priv, n_nick, env, fmt,
                  life, beat, failed_providers >>

\* on_pubmsg, line 147 false: the handler returns
on_pubmsg_skip ==
  /\ main_pc = "running"
  /\ pc = "decided"
  /\ ~decision.ret
  /\ pc' = "idle"
  /\ message' = <<>>
  /\ sender' = <<>>
  /\ decision' = NoDecision
  /\ UNCHANGED << nickname, server_nick, ollama_client, openai_client,
                  conversation_memory, joined, gen, timers, outbox, arrived,
                  clock, n_timers, n_priv, n_nick, env, fmt,
                  life, beat, failed_providers >>

\* a variant that drops a provider once it has failed
Generate_skip_failed(msg) ==
  \E local_out \in env.outcomes, cloud_out \in env.outcomes, pick \in Picks :
    /\ gen' = get_consciousness_response(msg,
                                         ollama_client /\ "local" \notin failed_providers,
                                         openai_client /\ "cloud" \notin failed_providers,
                                         local_out, cloud_out, pick)
    /\ failed_providers' =
         failed_providers \cup
           { gen'.calls[i] : i \in { j \in 1..Len(gen'.calls) : Raises(gen'.results[j]) } }

\* a call of get_consciousness_response on the handler's message
Generate(msg) ==
  \E local_out \in env.outcomes, cloud_out \in env.outcomes, pick \in Picks :
    /\ gen' = get_consciousness_response(msg, ollama_client, openai_client,
                                         local_out, cloud_out, pick)
    /\ failed_providers' =
         failed_providers \cup
           { gen'.calls[i] : i \in { j \in 1..Len(gen'.calls) : Raises(gen'.results[j]) } }

\* on_pubmsg, line 148
on_pubmsg_generate ==
  /\ main_pc = "running"
  /\ pc = "decided"
  /\ decision.ret
  /\ Generate(message)
  /\ pc' = "schedule"
  /\ UNCHANGED << nickname, server_nick, ollama_client, openai_client,
                  conversation_memory, joined, message, sender, decision, timers,
                  outbox, arrived, clock, n_timers, n_priv, n_nick, env, fmt,
                  life, beat >>

\* on_pubmsg, lines 149-152: `if response:` start the Timer; the handler returns
on_pubmsg_schedule ==
  /\ main_pc = "running"
  /\ pc = "schedule"
  /\ IF gen.ret # <<>>
     THEN /\ timers' = timers \cup {[id |-> n_timers + 1, kind |-> "reply",
                                     target |-> Channel, text |-> gen.ret]}
          /\ n_timers' = n_timers + 1
     ELSE UNCHANGED << timers, n_timers >>
  /\ pc' = "idle"
  /\ message' = <<>>
  /\ sender' = <<>>
  /\ decision' = NoDecision
  /\ gen' = NoGen
  /\ UNCHANGED << nickname, server_nick, ollama_client, openai_client,
                  conversation_memory, joined, outbox, arrived, clock, n_priv,
                  n_nick, env, fmt,
                  life, beat, failed_providers >>

\* the Timer thread started at line 152 runs c.privmsg(self.channel, response)
timer_fire ==
  /\ \E t \in timers :
       /\ t.kind = "reply"
       /\ privmsg(t.target, t.text)
       /\ timers' = timers \ {t}
  /\ UNCHANGED << nickname, server_nick, ollama_client, openai_client,
                  conversation_memory, joined, pc, message, sender, decision, gen,
                  arrived, clock, n_timers, n_priv, n_nick, env, fmt,
                  main_pc, connected, quits, n_fail, n_int, beat, failed_providers >>

\* on_privmsg, lines 312-315
on_privmsg_generate ==
  /\ main_pc = "running"
  /\ pc = "idle"
  /\ joined
  /\ n_priv < env.privs
  /\ \E m \in env.pool :
       /\ message' = m.text
       /\ sender' = m.sender
       /\ Generate(m.text)
  /\ n_priv' = n_priv + 1
  /\ pc' = "priv_send"
  /\ UNCHANGED << nickname, server_nick, ollama_client, openai_client,
                  conversation_memory, joined, decision, timers, outbox, arrived,
                  clock, n_timers, n_nick, env, fmt,
                  life, beat >>

\* on_privmsg, lines 316-319
on_privmsg_send ==
  /\ main_pc = "running"
  /\ pc = "priv_send"
  /\ IF gen.ret # <<>>
     THEN outbox' = Append(outbox, [target |-> sender, text |-> IdentityLabel \o gen.ret])
     ELSE UNCHANGED outbox
  /\ pc' = "idle"
  /\ message' = <<>>
  /\ sender' = <<>>
  /\ gen' = NoGen
  /\ UNCHANGED << nickname, server_nick, ollama_client, openai_client,
                  conversation_memory, joined, decision, timers, arrived, clock,
                  n_timers, n_priv, n_nick, env, fmt,
                  life, beat, failed_providers >>

\* main, line 339: bot.start() has opened the connection; the server will
\* register the bot anew
main_connect ==
  /\ main_pc = "connecting"
  /\ main_pc' = "running"
  /\ connected' = TRUE
  /\ joined' = FALSE
  /\ UNCHANGED << nickname, server_nick, ollama_client, openai_client,
                  conversation_memory, pc, message, sender, decision, gen, timers,
                  outbox, arrived, clock, n_timers, n_priv, n_nick, env, fmt,
                  quits, send_errors, n_fail, n_int, beat, failed_providers >>

\* main, lines 345-347: bot.start() raises an Exception between two events;
\* the connection may or may not be lost with it
main_failure ==
  /\ main_pc \in {"connecting", "running"}
  /\ pc = "idle"
  /\ n_fail < env.failures
  /\ main_pc' = "backoff"
  /\ n_fail' = n_fail + 1
  /\ \E c \in {connected, FALSE} : connected' = c
  /\ UNCHANGED << nickname, server_nick, ollama_client, openai_client,
                  conversation_memory, joined, pc, message, sender, decision, gen,
                  timers, outbox, arrived, clock, n_timers, n_priv, n_nick, env, fmt,
                  quits, send_errors, n_int, beat, failed_providers >>

\* main, line 348 and back to line 337: time.sleep(30) returns
main_backoff ==
  /\ main_pc = "backoff"
  /\ main_pc' = "connecting"
  /\ clock' = clock + BackoffSeconds
  /\ UNCHANGED << nickname, server_nick, ollama_client, openai_client,
                  conversation_memory, joined, pc, message, sender, decision, gen,
                  timers, outbox, arrived, n_timers, n_priv, n_nick, env, fmt,
                  connected, quits, send_errors, n_fail, n_int, beat,
                  failed_providers >>

\* main, lines 341-344: KeyboardInterrupt inside the try block; bot.die(...)
\* sends the farewell on an open connection, closes it and exits
main_shutdown ==
  /\ main_pc \in {"connecting", "running"}
  /\ n_int < env.interrupts
  /\ n_int' = n_int + 1
  /\ quits' = IF connected THEN Append(quits, Farewell) ELSE quits
  /\ connected' = FALSE
  /\ main_pc' = "exited"
  /\ UNCHANGED << nickname, server_nick, ollama_client, openai_client,
                  conversation_memory, joined, pc, message, sender, decision, gen,
                  timers, outbox, arrived, clock, n_timers, n_priv, n_nick, env, fmt,
                  send_errors, n_fail, beat, failed_providers >>

\* main, line 348: KeyboardInterrupt during time.sleep(30), which is inside
\* the `except Exception` handler and outside the try block: nothing catches
\* it and main() ends with the traceback
main_interrupt_backoff ==
  /\ main_pc = "backoff"
  /\ n_int < env.interrupts
  /\ n_int' = n_int + 1
  /\ main_pc' = "crashed"
  /\ UNCHANGED << nickname, server_nick, ollama_client, openai_client,
                  conversation_memory, joined, pc, message, sender, decision, gen,
                  timers, outbox, arrived, clock, n_timers, n_priv, n_nick, env, fmt,
                  connected, quits, send_errors, n_fail, beat, failed_providers >>

\* the process lives while main() runs or a Timer thread (not a daemon) is
\* pending; the heartbeat thread is a daemon and ends with the process
ProcessAlive == main_pc \notin {"exited", "crashed"} \/ timers # {}

\* a variant that pulses from one whole interval on
overdue_at_interval(elapsed) == elapsed >= heartbeat_interval

\* line 296: current_time - self.last_heartbeat > self.heartbeat_interval * 1.5
overdue(elapsed) == 2 * elapsed > 3 * heartbeat_interval

\* digital_heartbeat, lines 291-308: one turn of the loop, from the return
\* of time.sleep to the next sleep, or to the exception that ends the thread
digital_heartbeat ==
  /\ hb.alive
  /\ hb.wakes < env.wakes
  /\ ProcessAlive
  /\ \E d \in SleepDurations, draw \in PulseDraws, pick \in Picks :
       LET current_time == clock + d
           elapsed == current_time - last_heartbeat
           pulse == overdue(elapsed) /\ draw < PulsePercent
           raised == pulse /\ ~connected
           beat_now == [hb EXCEPT !.wakes = hb.wakes + 1,
                                  !.current_time = current_time,
                                  !.elapsed = elapsed,
                                  !.calls = IF pulse THEN 1 ELSE 0,
                                  !.total = hb.total + (IF pulse THEN 1 ELSE 0),
                                  !.on_time = hb.on_time /\ elapsed = heartbeat_interval]
       IN  /\ clock' = current_time
           /\ IF pulse
              THEN privmsg(Channel, random_choice(pulses, pick))
              ELSE UNCHANGED << outbox, send_errors >>
           /\ IF raised
              THEN /\ hb' = [beat_now EXCEPT !.alive = FALSE]
                   /\ UNCHANGED last_heartbeat
              ELSE /\ hb' = beat_now
                   /\ last_heartbeat' = current_time
  /\ UNCHANGED << nickname, server_nick, ollama_client, openai_client,
                  conversation_memory, joined, pc, message, sender, decision, gen,
                  timers, arrived, n_timers, n_priv, n_nick, env, fmt,
                  main_pc, connected, quits, n_fail, n_int, failed_providers >>

Next ==
  \/ main_connect
  \/ main_failure
  \/ main_backoff
  \/ main_shutdown
  \/ main_interrupt_backoff
  \/ on_nicknameinuse
  \/ on_welcome
  \/ send_introduction
  \/ on_pubmsg_append
  \/ on_pubmsg_trim
  \/ on_pubmsg_decide
  \/ on_pubmsg_skip
  \/ on_pubmsg_generate
  \/ on_pubmsg_schedule
  \/ timer_fire
  \/ on_privmsg_generate
  \/ on_privmsg_send
  \/ digital_heartbeat

Spec == Init /\ [][Next]_vars

---------------------------------------------------------------------------
(* format_irc_response on its own *)

Pads == { <<>>, << " " >>, << "\t", "\n" >> }

Gaps == { <<>>, << " " >>, << " ", " " >>, << "\n" >> }

\* a run of "a", a gap, a run of "b", padded with whitespace: the collapsed
\* text is shorter than, equal to, or longer than the limit, and the cut can
\* fall before, on or after the gap
FormatInputs ==
  { pre \o Rep("a", n) \o gap \o Rep("b", m) \o post :
      pre \in Pads, post \in Pads, gap \in Gaps,
      n \in {0, 1} \cup ((TruncLen - PadSlack)..(TruncLen + PadSlack)),
      m \in 0..(PadSlack + 3) }

FormatInit ==
  /\ nickname = ConfiguredNick
  /\ server_nick = ConfiguredNick
  /\ env \in { e \in Envs : e.pubs = MaxPub }
  /\ ollama_client = env.local
  /\ openai_client = env.cloud
  /\ conversation_memory = <<>>
  /\ joined = FALSE
  /\ pc = "idle"
  /\ message = <<>>
  /\ sender = <<>>
  /\ decision = NoDecision
  /\ gen = NoGen
  /\ timers = {}
  /\ outbox = <<>>
  /\ arrived = <<>>
  /\ clock = 0
  /\ n_timers = 0
  /\ n_priv = 0
  /\ n_nick = 0
  /\ main_pc = "connecting"
  /\ connected = FALSE
  /\ quits = <<>>
  /\ send_errors = 0
  /\ n_fail = 0
  /\ n_int = 0
  /\ last_heartbeat = 0
  /\ hb = NoBeat
  /\ failed_providers = {}
  /\ \E raw \in FormatInputs : fmt = [stage |-> "raw", raw |-> raw, once |-> <<>>, twice |-> <<>>]

format_once ==
  /\ fmt.stage = "raw"
  /\ fmt' = [fmt EXCEPT !.stage = "once", !.once = format_irc_response(fmt.raw)]
  /\ UNCHANGED bot_state

format_twice ==
  /\ fmt.stage = "once"
  /\ fmt' = [fmt EXCEPT !.stage = "twice", !.twice = format_irc_response(fmt.once)]
  /\ UNCHANGED bot_state

FormatNext ==
  \/ format_once
  \/ format_twice

FormatSpec == FormatInit /\ [][FormatNext]_vars

---------------------------------------------------------------------------
(* Properties *)

LastN(seq, n) == SubSeq(seq, IF Len(seq) > n THEN Len(seq) - n + 1 ELSE 1, Len(seq))

\* C1 (as stated): the conversation memory never holds more than max_memory
\* entries in any reachable state, the state between the append and the trim
\* included, and once more than max_memory messages have arrived it holds
\* exactly the last max_memory of them in arrival order.
C1_MemoryNeverExceedsCapacity ==
  /\ Len(conversation_memory) <= max_memory
  /\ Len(arrived) > max_memory => conversation_memory = LastN(arrived, max_memory)

\* C1 (amended): outside the window between the append and the trim of
\* on_pubmsg the memory holds the last max_memory messages received (all of
\* them while fewer have arrived), in arrival order; inside that window it
\* holds the last max_memory + 1, so it never holds more than max_memory + 1.
C1_MemoryBoundedAfterTrim ==
  /\ Len(conversation_memory) <= max_memory + 1
  /\ pc # "trim" => /\ Len(conversation_memory) <= max_memory
                    /\ conversation_memory = LastN(arrived, max_memory)
  /\ pc = "trim" => conversation_memory = LastN(arrived, max_memory + 1)

C1_Witness ==
  /\ pc = "decide"
  /\ Len(arrived) > max_memory + 1
  /\ Len(conversation_memory) = max_memory

InCall == pc \in {"schedule", "priv_send"}

\* C2: in every call of get_consciousness_response the providers are tried
\* in the order local, cloud; only configured providers are called, each at
\* most once; a call that succeeds is the last one and its formatted content
\* is returned; the cloud provider is called only if the local provider is
\* absent or has failed in this call.
C2_ProviderOrder ==
  InCall =>
    /\ gen.calls \in { <<>>, <<"local">>, <<"cloud">>, <<"local", "cloud">> }
    /\ Len(gen.results) = Len(gen.calls)
    /\ ollama_client => (gen.calls # <<>> /\ gen.calls[1] = "local")
    /\ \A i \in 1..Len(gen.calls) :
         /\ gen.calls[i] = "local" => ollama_client
         /\ gen.calls[i] = "cloud" => openai_client
         /\ gen.results[i].kind = "text" =>
              /\ i = Len(gen.calls)
              /\ gen.ret = format_irc_response(gen.results[i].content)
    /\ (\E i \in 1..Len(gen.calls) : gen.calls[i] = "cloud") =>
         \/ ~ollama_client
         \/ (gen.calls[1] = "local" /\ gen.results[1].kind # "text")

C2_Witness ==
  /\ pc = "schedule"
  /\ gen.calls = <<"local", "cloud">>
  /\ gen.results[1].kind = "error"
  /\ gen.results[2].kind = "text"
  /\ gen.ret # <<>>

\* every configured provider was called in this call and failed
EveryProviderFailed ==
  /\ ollama_client => \E i \in 1..Len(gen.calls) :
                        gen.calls[i] = "local" /\ gen.results[i].kind # "text"
  /\ openai_client => \E i \in 1..Len(gen.calls) :
                        gen.calls[i] = "cloud" /\ gen.results[i].kind # "text"

\* C3: when every configured provider fails in a call of
\* get_consciousness_response (the call raises, the response is malformed,
\* or it carries no content), or no provider is configured, the call
\* returns a non-empty text that is an entry of the canned-response table.
C3_FallbackWhenAllFail ==
  (InCall /\ EveryProviderFailed) =>
    /\ gen.ret # <<>>
    /\ \E k \in 1..Len(responses) : gen.ret = responses[k]

C3_Witness ==
  /\ pc = "priv_send"
  /\ Len(gen.calls) = 2
  /\ gen.results[1].kind = "nocontent"
  /\ gen.results[2].kind = "malformed"
  /\ EveryProviderFailed

Mentioned == Contains(Lower(message), Lower(nickname))

\* C4: for a message whose sender is the bot's current nickname,
\* should_respond returns false without a random draw, also when the text
\* mentions the nickname, holds a keyword or a question mark, and after the
\* nickname was changed by collisions.
C4_NeverAnswersSelf ==
  (pc = "decided" /\ sender = nickname) =>
    (~decision.ret /\ decision.consumed = 0)

C4_Witness ==
  /\ pc = "decided"
  /\ sender = nickname
  /\ n_nick > 0
  /\ Contains(message, <<"?">>)
  /\ ~decision.ret

\* C5: for a message from another sender that contains the current nickname
\* as a case-insensitive substring, should_respond returns true without a
\* random draw.
C5_MentionAlwaysAnswered ==
  (pc = "decided" /\ sender # nickname /\ Mentioned) =>
    (decision.ret /\ decision.consumed = 0)

C5_Witness ==
  /\ pc = "decided"
  /\ sender # nickname
  /\ Mentioned
  /\ ~Contains(message, nickname)
  /\ decision.draw >= KeywordPercent
  /\ decision.ret

\* C6: for a message from another sender that does not mention the nickname
\* and holds a keyword, the result of should_respond is one random draw
\* compared against 0.8, also when the text holds a question mark.
C6_KeywordBranchGoverns ==
  (pc = "decided" /\ sender # nickname /\ ~Mentioned /\ HasKeyword(message)) =>
    /\ decision.consumed = 1
    /\ decision.ret = (decision.draw < 80)

C6_Witness ==
  /\ pc = "decided"
  /\ sender # nickname
  /\ ~Mentioned
  /\ HasKeyword(message)
  /\ Contains(message, <<"?">>)
  /\ decision.draw >= 40
  /\ decision.ret

\* C7: the text format_irc_response returns has at most 400 characters; when
\* the collapsed input is longer than 400 characters the output has exactly
\* 400: the first 397 characters of the collapsed text, then "..."; otherwise
\* the output is the collapsed text.
C7_FormatLength ==
  fmt.stage \in {"once", "twice"} =>
    LET collapsed == Collapse(fmt.raw)
    IN  /\ Len(fmt.once) <= 400
        /\ Len(collapsed) > 400 =>
             /\ Len(fmt.once) = 400
             /\ SubSeq(fmt.once, 1, 397) = SubSeq(collapsed, 1, 397)
             /\ SubSeq(fmt.once, 398, 400) = << ".", ".", "." >>
        /\ Len(collapsed) <= 400 => fmt.once = collapsed

C7_Witness ==
  /\ fmt.stage = "once"
  /\ Len(Collapse(fmt.raw)) > 400
  /\ Len(fmt.once) = 400

\* C8: format_irc_response is idempotent: formatting its own output changes
\* nothing, also when the output was cut and the cut ends in a space.
C8_FormatIdempotent ==
  fmt.stage = "twice" => fmt.twice = fmt.once

C8_Witness ==
  /\ fmt.stage = "twice"
  /\ Len(Collapse(fmt.raw)) > 400
  /\ fmt.once[397] = " "
  /\ fmt.twice = fmt.once

\* C9: after every nickname-collision event the nickname is the configured
\* nickname, an underscore and a two-digit number, and it is the nickname
\* requested from the server; also after several collisions in a row.
C9_NickFromConfigured ==
  n_nick > 0 =>
    /\ \E n \in SuffixLo..SuffixHi : nickname = ConfiguredNick \o <<"_">> \o TwoDigits(n)
    /\ server_nick = nickname

\* C10: the handler of a private message does not consult should_respond and
\* sends exactly one message to the sender: the identity label followed by
\* the response, whatever the providers returned.
C10_PrivateAlwaysAnswered ==
  [][(pc = "priv_send" /\ pc' = "idle") =>
       /\ outbox' = Append(outbox, [target |-> sender, text |-> IdentityLabel \o gen.ret])
       /\ UNCHANGED decision]_vars

InLoop == main_pc \in {"connecting", "running", "backoff"}

\* the shutdown path of main(), lines 341-344, taken by this step
ShutdownPathTaken ==
  /\ main_pc' = "exited"
  /\ ~connected'
  /\ quits' = IF connected THEN Append(quits, Farewell) ELSE quits

\* C11 (as stated): every failure of bot.start() other than a shutdown
\* request leads to the back-off; the back-off ends, unless a shutdown is
\* requested, with BackoffSeconds (30) elapsed and a new attempt to connect,
\* for any number of consecutive failures; and the run loop ends only
\* through the shutdown path.
C11_FailuresNeverFatal ==
  [][/\ (n_fail' = n_fail + 1 => main_pc' = "backoff")
     /\ (main_pc = "backoff" /\ main_pc' # "backoff" /\ n_int' = n_int =>
           main_pc' = "connecting" /\ clock' = clock + BackoffSeconds)
     /\ (InLoop /\ ~InLoop' => ShutdownPathTaken)]_vars

\* C12 (as stated): an interrupt received while connecting, while connected
\* or during the back-off takes the shutdown path (the farewell is sent if a
\* connection is open, the connection is closed, the process exits), and no
\* connection is attempted afterwards.
C12_InterruptTakesShutdownPath ==
  [][/\ (n_int' = n_int + 1 => ShutdownPathTaken)
     /\ (~InLoop => main_pc' = main_pc)]_vars

\* C13 (as stated): once the shutdown path has run, the heartbeat loop and
\* every pending delayed-send task (introduction or reply) are cancelled:
\* none of them runs, none calls the send, nothing more goes out, and the
\* farewell is the only thing sent at shutdown.
C13_ShutdownCancelsTasks ==
  [][main_pc = "exited" =>
       /\ timers' = timers
       /\ hb' = hb
       /\ outbox' = outbox
       /\ send_errors' = send_errors
       /\ Len(quits') <= 1]_vars

\* C14 (as stated): the heartbeat thread runs until the process shuts down,
\* whatever the state of the connection (not yet connected, lost during the
\* back-off, send failing) and whatever the handlers do.
C14_HeartbeatNeverStops == InLoop => hb.alive

\* C15 (as stated): after every wake of the heartbeat, self.last_heartbeat
\* is the time of that wake, whichever branch the wake took (check not
\* triggered, triggered without a send, triggered with a send that succeeded
\* or failed).
C15_LastTickAlwaysUpdated == hb.wakes > 0 => last_heartbeat = hb.current_time

PulseSent == \E i \in 1..Len(outbox) : outbox[i].text \in Range(pulses)

C17_OneReplyPerAnsweredMessage ==
  [][/\ (pc = "schedule" /\ pc' = "idle" =>
           \E t \in timers' \ timers :
             /\ timers' = timers \cup {t}
             /\ t.kind = "reply"
             /\ t.target = Channel
             /\ t.text = gen.ret)
     /\ \A t \in timers \ timers' :
          t.kind = "reply" =>
            /\ timers' = timers \ {t}
            /\ IF connected
               THEN outbox' = Append(outbox, [target |-> Channel, text |-> t.text])
               ELSE outbox' = outbox /\ send_errors' = send_errors + 1]_vars

\* C18: while and after should_respond is evaluated for a public message,
\* that message (the bot's own included) is already the last entry of the
\* memory and the memory is trimmed; no provider has been called before the
\* decision; and when the decision is false the handler returns without
\* calling a provider and without scheduling or sending anything.
C18_AppendBeforeDecision ==
  [][/\ (pc' \in {"decide", "decided"} =>
           /\ conversation_memory' = LastN(arrived', max_memory)
           /\ conversation_memory'[Len(conversation_memory')].message = message'
           /\ conversation_memory'[Len(conversation_memory')].sender = sender'
           /\ gen' = NoGen)
     /\ (pc = "decided" /\ ~decision.ret /\ pc' # pc =>
           /\ pc' = "idle"
           /\ gen' = NoGen
           /\ UNCHANGED << timers, n_timers, outbox, send_errors, failed_providers >>)
     /\ (pc' = "schedule" => decision.ret)]_vars

\* the bot's own message, remembered and not answered
C18_Witness ==
  /\ pc = "decided"
  /\ ~decision.ret
  /\ sender = nickname
  /\ conversation_memory # <<>>
  /\ conversation_memory[Len(conversation_memory)].sender = nickname
  /\ conversation_memory[Len(conversation_memory)].message = message

TransportSafe(text) == Len(text) <= IrcLimit /\ Collapse(text) = text

\* C19 (as stated): every reply text the bot schedules or sends in answer to
\* a public or private message is whitespace-collapsed and at most IrcLimit
\* (400) characters long, the identity label of a private reply included.
C19_RepliesTransportSafe ==
  /\ \A t \in timers : t.kind = "reply" => TransportSafe(t.text)
  /\ \A i \in 1..Len(outbox) :
       outbox[i].text \notin (Range(intros) \cup Range(pulses)) => TransportSafe(outbox[i].text)

\* C20: the providers found at startup stay configured and stay in their
\* order: in every request the local provider, if startup found it, is
\* called first even if it failed in an earlier request, the cloud provider,
\* if configured, is called whenever the local one is absent or fails in
\* this request, and a local provider absent at startup is never called.
C20_ProvidersFixedAtStartup ==
  /\ ollama_client = env.local
  /\ openai_client = env.cloud
  /\ InCall =>
       /\ env.local => gen.calls # <<>> /\ gen.calls[1] = "local"
       /\ env.cloud /\ (~env.local \/ Raises(gen.results[1])) =>
            gen.calls[Len(gen.calls)] = "cloud"
       /\ ~env.local => \A i \in 1..Len(gen.calls) : gen.calls[i] # "local"
  /\ ~env.local => "local" \notin failed_providers

\* the local provider failed in an earlier request and answers in this one
C20_Witness ==
  /\ InCall
  /\ Len(arrived) > 1
  /\ "local" \in failed_providers
  /\ gen.calls = <<"local">>
  /\ ~Raises(gen.results[1])

====
